---- MODULE Spec2Model ----
(***************************************************************************)
(* Model of the database helpers of BeurerScaleManager (utils.cpp):        *)
(* openDdAndCheckTables, closeDb, isTablePresent, createTable, dropTable,  *)
(* getTableVersion, setTableVersion and executeQuery, running on one       *)
(* process-wide QSqlDatabase handle over one SQLite file.                  *)
(***************************************************************************)
EXTENDS Integers, Sequences, FiniteSets, TLC

(***************************************************************************)
(* Bounds and constants                                                    *)
(***************************************************************************)

\* Largest version number a caller passes to setTableVersion.
MaxVersion == 1

VERSION_TABLE_NAME == "TablesVersions"

\* Data::UserDataDB::tableName, the one domain table of the start-up.
UserDataTableName == "UserData"

\* Data::UserDataDB::tableVersion, the version the domain table is recorded at.
UserDataTableVersion == 1

\* A table name that is not an SQL identifier (it holds a space).
BadTableName == "bad name"

TableNames == {VERSION_TABLE_NAME, UserDataTableName, BadTableName}

\* The names made of identifier characters only.
IdentifierNames == {VERSION_TABLE_NAME, UserDataTableName}

\* The versions callers pass to setTableVersion: a negative one, 0 and the
\* positive ones up to the bound.
Versions == -1..MaxVersion

\* int and the uint of QVariant::toUInt are 32 bits wide; the model computes
\* on them in two halves of HalfBits bits each.
HalfBits == 16

HalfWord == 2 ^ HalfBits

\* The column type clauses that designate a primary key.
PrimaryKeyClauses == {"TEXT PRIMARY KEY", "INTEGER PRIMARY KEY"}

\* The columns of the version table, as the start-up statement spells them.
VersionTableDef == << <<"tableName", "TEXT PRIMARY KEY">>, <<"version", "INTEGER">> >>

\* A definition that designates a primary key.
KeyedDef == << <<"id", "INTEGER PRIMARY KEY">>, <<"weight", "REAL">> >>

\* A well-formed definition in which no column designates a primary key.
NoKeyDef == << <<"weight", "REAL">>, <<"fat", "REAL">> >>

\* An ill-formed definition: no column at all.
EmptyDef == << >>

\* The definitions callers hand to createTable.
ColumnLists == {KeyedDef, NoKeyDef, EmptyDef}

\* Marks a table the catalog does not hold, and a missing registry row.
Absent == << <<"", "">> >>

\* What the name BSM_SAVING_FOLDER is in the home directory: nothing, a
\* directory, or a file.
SavingEntries == {"absent", "dir", "file"}

NoRow == 0 - (MaxVersion + 1000)

(***************************************************************************)
(* State                                                                   *)
(***************************************************************************)

VARIABLES
    pc,         \* the position of the thread: "idle", or inside openDdAndCheckTables
    dbOpen,     \* the handle db is open
    tables,     \* the catalog of the database file: name -> columns, or Absent
    rows,       \* the rows of the version table: tableName -> version, or NoRow
    last,       \* the last call: its arguments, results and the statements it prepared
                \* (val: the int returned; for setTableVersion the row found, or NoRow)
    roundTrip,  \* per table, the version of the last successful setTableVersion
                \* that no later setTableVersion of the table has followed;
                \* intact: the version table has not been dropped since;
                \* dropped: a dropTable has removed the table since, the record
                \* being of a version > 0 with the version table kept (the case
                \* in which the row can be told from the 0 of an absent table).
                \* Any other dropTable of the table ends the record.
    home,       \* QDir::home() exists
    saving,     \* the entry BSM_SAVING_FOLDER of the home directory
    dirCall     \* the last checkUserDirectory: its message, whether it called
                \* mkdir, and whether it came right after a successful one

vars == <<pc, dbOpen, tables, rows, last, roundTrip, home, saving, dirCall>>

dirVars == <<home, saving, dirCall>>

\* The database as the helpers see it.
Db == [open |-> dbOpen, tables |-> tables, rows |-> rows]

Fs == [home |-> home, saving |-> saving]

NoRows == [n \in TableNames |-> NoRow]

(***************************************************************************)
(* SQL statements and the SQLite behaviour behind QSqlQuery                *)
(***************************************************************************)

Stmt(verb, name, quoted, cols, bind) ==
    [verb |-> verb, name |-> name, quoted |-> quoted, cols |-> cols, bind |-> bind]

ColumnNames(cols) == {cols[i][1] : i \in 1..Len(cols)}

KeyColumns(cols) == {i \in 1..Len(cols) : cols[i][2] \in PrimaryKeyClauses}

\* A column list SQLite accepts: at least one column, no name twice, at most
\* one column-level PRIMARY KEY.
WellFormed(cols) ==
    /\ Len(cols) > 0
    /\ Cardinality(ColumnNames(cols)) = Len(cols)
    /\ Cardinality(KeyColumns(cols)) <= 1

HasPrimaryKey(cols) == KeyColumns(cols) # {}

\* The version table holds rows the helpers can read and write only when it
\* has the columns the SELECT and INSERT name.
HasVersionColumns(cols) == {"tableName", "version"} \subseteq ColumnNames(cols)

\* QSqlQuery::prepare: the statement compiles against the open database.
Prepares(st, sql, fault) ==
    /\ st.open
    /\ ~fault
    /\ CASE sql.verb = "CREATE" ->
              /\ (sql.quoted \/ sql.name \in IdentifierNames)
              /\ WellFormed(sql.cols)
              /\ HasPrimaryKey(sql.cols)      \* WITHOUT ROWID needs a PRIMARY KEY
              /\ st.tables[sql.name] = Absent
         [] sql.verb = "CREATE IF NOT EXISTS" ->
              /\ (sql.quoted \/ sql.name \in IdentifierNames)
              /\ WellFormed(sql.cols)
              /\ HasPrimaryKey(sql.cols)
         [] sql.verb = "DROP" ->
              /\ (sql.quoted \/ sql.name \in IdentifierNames)
              /\ st.tables[sql.name] # Absent
         [] OTHER ->                          \* SELECT, INSERT OR REPLACE
              /\ st.tables[sql.name] # Absent
              /\ HasVersionColumns(st.tables[sql.name])

\* QSqlQuery::exec of a prepared statement: the database afterwards.
Exec(st, sql) ==
    CASE sql.verb \in {"CREATE", "CREATE IF NOT EXISTS"} ->
           IF st.tables[sql.name] # Absent THEN st
           ELSE [st EXCEPT !.tables[sql.name] = sql.cols]
      [] sql.verb = "DROP" ->
           [st EXCEPT !.tables[sql.name] = Absent,
                      !.rows = IF sql.name = VERSION_TABLE_NAME THEN NoRows ELSE @]
      [] sql.verb = "INSERT OR REPLACE" ->
           [st EXCEPT !.rows[sql.bind[1]] = sql.bind[2]]
      [] OTHER -> st

\* QVariant::toUInt of a stored integer, assigned to int retval.
ToUInt(v) == [hi |-> (v \div HalfWord) % HalfWord, lo |-> v % HalfWord]

\* The uint converted to int: the values from 2^31 on wrap to the negatives.
ToInt(u) ==
    IF u.hi >= HalfWord \div 2 THEN (u.hi - HalfWord) * HalfWord + u.lo
    ELSE u.hi * HalfWord + u.lo

(***************************************************************************)
(* The helpers of utils.cpp.  Each yields its result, the database         *)
(* afterwards and the statements it handed to QSqlQuery::prepare.          *)
(***************************************************************************)

Result(ok, val, st, sql) == [ok |-> ok, val |-> val, st |-> st, sql |-> sql]

executeQuery(st, sql, fault) ==
    IF ~Prepares(st, sql, fault) THEN Result(FALSE, 0, st, <<sql>>)
    ELSE Result(TRUE, 0, Exec(st, sql), <<sql>>)

\* isTablePresent reading the catalog of the file whether or not db is open.
isTablePresent_IgnoresOpen(st, tableName) == st.tables[tableName] # Absent

isTablePresent(st, tableName) == st.open /\ st.tables[tableName] # Absent

\* createTable with IF NOT EXISTS in its statement.
createTable_IfNotExists(st, tableName, tableDefinition, fault) ==
    executeQuery(st, Stmt("CREATE IF NOT EXISTS", tableName, TRUE, tableDefinition, <<>>),
                 fault)

\* createTable that starts the new table without a version: its row of the
\* version table, if any, is deleted.
createTable_ResetsVersion(st, tableName, tableDefinition, fault) ==
    LET r == executeQuery(st, Stmt("CREATE", tableName, TRUE, tableDefinition, <<>>),
                          fault) IN
    IF r.ok /\ tableName # VERSION_TABLE_NAME
    THEN Result(TRUE, 0, [r.st EXCEPT !.rows[tableName] = NoRow], r.sql)
    ELSE r

createTable(st, tableName, tableDefinition, fault) ==
    executeQuery(st, Stmt("CREATE", tableName, TRUE, tableDefinition, <<>>), fault)

\* dropTable that also deletes the table's row of the version table.
dropTable_PrunesRow(st, tableName, fault) ==
    IF ~isTablePresent(st, tableName) THEN Result(TRUE, 0, st, <<>>)
    ELSE LET r == executeQuery(st, Stmt("DROP", tableName, FALSE, <<>>, <<>>), fault) IN
         IF r.ok THEN Result(TRUE, 0, [r.st EXCEPT !.rows[tableName] = NoRow], r.sql)
         ELSE r

\* dropTable without the look for the table.
dropTable_NoPresenceCheck(st, tableName, fault) ==
    executeQuery(st, Stmt("DROP", tableName, FALSE, <<>>, <<>>), fault)

dropTable(st, tableName, fault) ==
    IF ~isTablePresent(st, tableName) THEN Result(TRUE, 0, st, <<>>)
    ELSE executeQuery(st, Stmt("DROP", tableName, FALSE, <<>>, <<>>), fault)

\* getTableVersion looking for the table before the version table.
getTableVersion_TableFirst(st, tableName, fault) ==
    LET sql == Stmt("SELECT", VERSION_TABLE_NAME, FALSE, <<>>, <<tableName>>) IN
    IF ~isTablePresent(st, tableName) THEN Result(TRUE, 0, st, <<>>)
    ELSE IF ~isTablePresent(st, VERSION_TABLE_NAME) THEN Result(TRUE, -1, st, <<>>)
    ELSE IF Prepares(st, sql, fault) /\ st.rows[tableName] # NoRow
         THEN Result(TRUE, ToInt(ToUInt(st.rows[tableName])), st, <<sql>>)
         ELSE Result(TRUE, -1, st, <<sql>>)

\* getTableVersion without the look for the table itself.
getTableVersion_NoTableCheck(st, tableName, fault) ==
    LET sql == Stmt("SELECT", VERSION_TABLE_NAME, FALSE, <<>>, <<tableName>>) IN
    IF ~isTablePresent(st, VERSION_TABLE_NAME) THEN Result(TRUE, -1, st, <<>>)
    ELSE IF Prepares(st, sql, fault) /\ st.rows[tableName] # NoRow
         THEN Result(TRUE, ToInt(ToUInt(st.rows[tableName])), st, <<sql>>)
         ELSE Result(TRUE, -1, st, <<sql>>)

\* getTableVersion answering 0, as for an absent table, when the row is missing.
getTableVersion_MissingIsZero(st, tableName, fault) ==
    LET sql == Stmt("SELECT", VERSION_TABLE_NAME, FALSE, <<>>, <<tableName>>) IN
    IF ~isTablePresent(st, VERSION_TABLE_NAME) THEN Result(TRUE, -1, st, <<>>)
    ELSE IF ~isTablePresent(st, tableName) THEN Result(TRUE, 0, st, <<>>)
    ELSE IF Prepares(st, sql, fault) /\ st.rows[tableName] # NoRow
         THEN Result(TRUE, ToInt(ToUInt(st.rows[tableName])), st, <<sql>>)
         ELSE Result(TRUE, 0, st, <<sql>>)

getTableVersion(st, tableName, fault) ==
    LET sql == Stmt("SELECT", VERSION_TABLE_NAME, FALSE, <<>>, <<tableName>>) IN
    IF ~isTablePresent(st, VERSION_TABLE_NAME) THEN Result(TRUE, -1, st, <<>>)
    ELSE IF ~isTablePresent(st, tableName) THEN Result(TRUE, 0, st, <<>>)
    ELSE IF Prepares(st, sql, fault) /\ st.rows[tableName] # NoRow
         THEN Result(TRUE, ToInt(ToUInt(st.rows[tableName])), st, <<sql>>)
         ELSE Result(TRUE, -1, st, <<sql>>)

\* setTableVersion without the look for the table itself.
setTableVersion_NoTableCheck(st, tableName, tableVersion, fault) ==
    LET sql == Stmt("INSERT OR REPLACE", VERSION_TABLE_NAME, FALSE, <<>>,
                    <<tableName, tableVersion>>) IN
    IF ~isTablePresent(st, VERSION_TABLE_NAME) THEN Result(FALSE, 0, st, <<>>)
    ELSE executeQuery(st, sql, fault)

\* setTableVersion with INSERT OR IGNORE: a row that is there is kept.
setTableVersion_InsertOrIgnore(st, tableName, tableVersion, fault) ==
    LET sql == Stmt("INSERT OR REPLACE", VERSION_TABLE_NAME, FALSE, <<>>,
                    <<tableName, tableVersion>>) IN
    IF ~isTablePresent(st, VERSION_TABLE_NAME) THEN Result(FALSE, 0, st, <<>>)
    ELSE IF ~isTablePresent(st, tableName) THEN Result(FALSE, 0, st, <<>>)
    ELSE IF Prepares(st, sql, fault) /\ st.rows[tableName] # NoRow
         THEN Result(TRUE, 0, st, <<sql>>)
         ELSE executeQuery(st, sql, fault)

\* setTableVersion with a plain INSERT: a second version of a table is refused.
setTableVersion_InsertOnly(st, tableName, tableVersion, fault) ==
    LET sql == Stmt("INSERT OR REPLACE", VERSION_TABLE_NAME, FALSE, <<>>,
                    <<tableName, tableVersion>>) IN
    IF ~isTablePresent(st, VERSION_TABLE_NAME) THEN Result(FALSE, 0, st, <<>>)
    ELSE IF ~isTablePresent(st, tableName) THEN Result(FALSE, 0, st, <<>>)
    ELSE IF st.rows[tableName] # NoRow THEN Result(FALSE, 0, st, <<sql>>)
    ELSE executeQuery(st, sql, fault)

setTableVersion(st, tableName, tableVersion, fault) ==
    LET sql == Stmt("INSERT OR REPLACE", VERSION_TABLE_NAME, FALSE, <<>>,
                    <<tableName, tableVersion>>) IN
    IF ~isTablePresent(st, VERSION_TABLE_NAME) THEN Result(FALSE, 0, st, <<>>)
    ELSE IF ~isTablePresent(st, tableName) THEN Result(FALSE, 0, st, <<>>)
    ELSE executeQuery(st, sql, fault)

closeDb(st) == [st EXCEPT !.open = FALSE]

DirResult(ok, error, made, fs) == [ok |-> ok, error |-> error, made |-> made, fs |-> fs]

\* QDir::mkdir: false when the entry exists already or cannot be created.
mkdir(fs, fault) ==
    IF fs.saving = "absent" /\ ~fault
    THEN [ok |-> TRUE, fs |-> [fs EXCEPT !.saving = "dir"]]
    ELSE [ok |-> FALSE, fs |-> fs]

\* QDir::cd: true when the directory exists.
cd(fs) == fs.saving = "dir"

\* checkUserDirectory creating the saving directory without looking for it.
checkUserDirectory_NoExistsTest(fs, fault) ==
    IF ~fs.home THEN DirResult(FALSE, "Directory not found", FALSE, fs)
    ELSE LET m == mkdir(fs, fault) IN
         IF ~m.ok THEN DirResult(FALSE, "Directory not created", TRUE, m.fs)
         ELSE IF ~cd(m.fs) THEN DirResult(FALSE, "Directory not opened", TRUE, m.fs)
         ELSE DirResult(TRUE, "", TRUE, m.fs)

checkUserDirectory(fs, fault) ==
    IF ~fs.home THEN DirResult(FALSE, "Directory not found", FALSE, fs)
    ELSE LET missing == fs.saving = "absent"
             m == IF missing THEN mkdir(fs, fault) ELSE [ok |-> TRUE, fs |-> fs]
         IN
         IF ~m.ok THEN DirResult(FALSE, "Directory not created", missing, m.fs)
         ELSE IF ~cd(m.fs) THEN DirResult(FALSE, "Directory not opened", missing, m.fs)
         ELSE DirResult(TRUE, "", missing, m.fs)

\* QSqlDatabase::addDatabase, setDatabaseName and open: the handle is replaced
\* by a new one, open unless the file cannot be opened.
openDb(st, fault) == [st EXCEPT !.open = ~fault]

\* The version table created without IF NOT EXISTS.
ensureVersionTable_NoIfNotExists(st, fault) ==
    executeQuery(st, Stmt("CREATE", VERSION_TABLE_NAME, FALSE, VersionTableDef, <<>>),
                 fault)

\* The first statement of the start-up: the version table, if it is not there.
ensureVersionTable(st, fault) ==
    executeQuery(st, Stmt("CREATE IF NOT EXISTS", VERSION_TABLE_NAME, FALSE,
                          VersionTableDef, <<>>), fault)

\* Data::UserDataDB::createTable: the domain table is created when it is
\* absent and its version recorded.
UserDataDB_createTable(st, fault1, fault2) ==
    IF isTablePresent(st, UserDataTableName) THEN Result(TRUE, 0, st, <<>>)
    ELSE LET c == createTable(st, UserDataTableName, KeyedDef, fault1) IN
         IF ~c.ok THEN c
         ELSE LET s == setTableVersion(c.st, UserDataTableName,
                                       UserDataTableVersion, fault2) IN
              Result(s.ok, 0, s.st, c.sql \o s.sql)

(***************************************************************************)
(* The state machine                                                       *)
(***************************************************************************)

Call(op, name, def, version, ok, val, failed, sql) ==
    [op |-> op, name |-> name, def |-> def, version |-> version,
     ok |-> ok, val |-> val, failed |-> failed, sql |-> sql]

NoDirCall == [error |-> "", made |-> FALSE, again |-> FALSE]

NoTrip == [version |-> NoRow, intact |-> FALSE, dropped |-> FALSE]

Init ==
    /\ pc = "idle"
    /\ dbOpen = FALSE
    /\ tables = [n \in TableNames |-> Absent]
    /\ rows = NoRows
    /\ last = Call("none", "", <<>>, 0, TRUE, 0, {}, <<>>)
    /\ roundTrip = [n \in TableNames |-> NoTrip]
    /\ home = TRUE
    /\ saving = "dir"
    /\ dirCall = NoDirCall

SetDb(st) ==
    /\ dbOpen' = st.open
    /\ tables' = st.tables
    /\ rows' = st.rows

\* openDdAndCheckTables, up to the result of db.open().
StartupOpen(F) ==
    /\ pc = "idle"
    /\ UNCHANGED dirVars
    /\ \E fault \in F :
         \E r \in {openDb(Db, fault \/ ~cd(Fs))} :  \* no directory, no file in it
            /\ SetDb(r)
            /\ pc' = IF r.open THEN "opened" ELSE "idle"
            /\ last' = Call("openDdAndCheckTables", "", <<>>, 0, FALSE, 0, {}, <<>>)
    /\ UNCHANGED roundTrip

\* The start-up going on to the domain tables after a failed version table.
StartupVersionTable_ContinueOnFailure(F) ==
    /\ pc = "opened"
    /\ UNCHANGED dirVars
    /\ \E fault \in F :
         \E r \in {ensureVersionTable(Db, fault)} :
            /\ SetDb(r.st)
            /\ pc' = "ensured"
            /\ last' = [last EXCEPT !.sql = @ \o r.sql]
    /\ UNCHANGED roundTrip

\* openDdAndCheckTables, the creation of the version table.
StartupVersionTable(F) ==
    /\ pc = "opened"
    /\ UNCHANGED dirVars
    /\ \E fault \in F :
         \E r \in {ensureVersionTable(Db, fault)} :
            /\ SetDb(r.st)
            /\ pc' = IF r.ok THEN "ensured" ELSE "idle"
            /\ last' = [last EXCEPT !.sql = @ \o r.sql]
    /\ UNCHANGED roundTrip

\* The start-up without the test of failedTables: it returns true.
StartupDomainTables_NoFailureTest(F) ==
    /\ pc = "ensured"
    /\ UNCHANGED dirVars
    /\ \E fault1 \in F, fault2 \in F :
         \E r \in {UserDataDB_createTable(Db, fault1, fault2)} :
            LET failedTables == IF r.ok THEN {} ELSE {UserDataTableName}
                inserts == {i \in 1..Len(r.sql) : r.sql[i].verb = "INSERT OR REPLACE"}
            IN
            /\ SetDb(r.st)
            /\ pc' = "idle"
            /\ last' = [last EXCEPT !.ok = TRUE,
                                    !.failed = failedTables,
                                    !.sql = @ \o r.sql]
            /\ roundTrip' =
                 IF inserts = {} THEN roundTrip
                 ELSE [roundTrip EXCEPT ![UserDataTableName] =
                          IF r.ok THEN [version |-> UserDataTableVersion, intact |-> TRUE,
                                       dropped |-> FALSE]
                          ELSE NoTrip]

\* openDdAndCheckTables, the domain tables and the final result.
StartupDomainTables(F) ==
    /\ pc = "ensured"
    /\ UNCHANGED dirVars
    /\ \E fault1 \in F, fault2 \in F :
         \E r \in {UserDataDB_createTable(Db, fault1, fault2)} :
            LET failedTables == IF r.ok THEN {} ELSE {UserDataTableName}
                inserts == {i \in 1..Len(r.sql) : r.sql[i].verb = "INSERT OR REPLACE"}
            IN
            /\ SetDb(r.st)
            /\ pc' = "idle"
            /\ last' = [last EXCEPT !.ok = (failedTables = {}),
                                    !.failed = failedTables,
                                    !.sql = @ \o r.sql]
            /\ roundTrip' =
                 IF inserts = {} THEN roundTrip
                 ELSE [roundTrip EXCEPT ![UserDataTableName] =
                          IF r.ok THEN [version |-> UserDataTableVersion, intact |-> TRUE,
                                       dropped |-> FALSE]
                          ELSE NoTrip]

CloseDb ==
    /\ pc = "idle"
    /\ UNCHANGED dirVars
    /\ SetDb(closeDb(Db))
    /\ last' = Call("closeDb", "", <<>>, 0, TRUE, 0, {}, <<>>)
    /\ UNCHANGED <<pc, roundTrip>>

IsTablePresent ==
    /\ pc = "idle"
    /\ UNCHANGED dirVars
    /\ \E n \in TableNames :
         last' = Call("isTablePresent", n, <<>>, 0, isTablePresent(Db, n), 0, {}, <<>>)
    /\ UNCHANGED <<pc, dbOpen, tables, rows, roundTrip>>

CreateTable(F) ==
    /\ pc = "idle"
    /\ UNCHANGED dirVars
    /\ \E n \in TableNames, d \in ColumnLists, fault \in F :
         \E r \in {createTable(Db, n, d, fault)} :
            /\ SetDb(r.st)
            /\ last' = Call("createTable", n, d, 0, r.ok, 0, {}, r.sql)
    /\ UNCHANGED <<pc, roundTrip>>

DropTable(F) ==
    /\ pc = "idle"
    /\ UNCHANGED dirVars
    /\ \E n \in TableNames, fault \in F :
         \E r \in {dropTable(Db, n, fault)} :
            LET registryDropped == /\ tables[VERSION_TABLE_NAME] # Absent
                                   /\ r.st.tables[VERSION_TABLE_NAME] = Absent
                removed == tables[n] # Absent /\ r.st.tables[n] = Absent
                stale(m) == /\ roundTrip[m].version > 0
                            /\ roundTrip[m].intact
                            /\ ~registryDropped
            IN
            /\ SetDb(r.st)
            /\ last' = Call("dropTable", n, <<>>, 0, r.ok, 0, {}, r.sql)
            /\ roundTrip' = [m \in TableNames |->
                               IF m = n
                               THEN IF removed /\ stale(m)
                                    THEN [roundTrip[m] EXCEPT !.dropped = TRUE]
                                    ELSE NoTrip
                               ELSE IF roundTrip[m].dropped /\ ~stale(m)
                                    THEN NoTrip
                                    ELSE [roundTrip[m] EXCEPT
                                             !.intact = @ /\ ~registryDropped]]
    /\ UNCHANGED pc

GetTableVersion(F) ==
    /\ pc = "idle"
    /\ UNCHANGED dirVars
    /\ \E n \in TableNames, fault \in F :
         \E r \in {getTableVersion(Db, n, fault)} :
            last' = Call("getTableVersion", n, <<>>, 0, TRUE, r.val, {}, r.sql)
    /\ UNCHANGED <<pc, dbOpen, tables, rows, roundTrip>>

SetTableVersion(F) ==
    /\ pc = "idle"
    /\ UNCHANGED dirVars
    /\ \E n \in TableNames, v \in Versions, fault \in F :
         \E r \in {setTableVersion(Db, n, v, fault)} :
            /\ SetDb(r.st)
            /\ last' = Call("setTableVersion", n, <<>>, v, r.ok, rows[n], {}, r.sql)
            /\ roundTrip' = [roundTrip EXCEPT ![n] =
                                IF r.ok THEN [version |-> v, intact |-> TRUE, dropped |-> FALSE]
                                ELSE NoTrip]
    /\ UNCHANGED pc

CheckUserDirectory(F) ==
    /\ pc = "idle"
    /\ \E fault \in F :
         \E r \in {checkUserDirectory(Fs, fault)} :
            /\ home' = r.fs.home
            /\ saving' = r.fs.saving
            /\ dirCall' = [error |-> r.error, made |-> r.made,
                            again |-> last.op = "checkUserDirectory" /\ last.ok]
            /\ last' = Call("checkUserDirectory", "", <<>>, 0, r.ok, 0, {}, <<>>)
    /\ UNCHANGED <<pc, dbOpen, tables, rows, roundTrip>>

\* Statements may fail for reasons outside the program (the file, the disk).
Faults == BOOLEAN

NoFaults == {FALSE}

Next ==
    \/ StartupOpen(Faults)
    \/ StartupVersionTable(Faults)
    \/ StartupDomainTables(Faults)
    \/ CloseDb
    \/ IsTablePresent
    \/ CreateTable(Faults)
    \/ DropTable(Faults)
    \/ GetTableVersion(Faults)
    \/ SetTableVersion(Faults)

Spec == Init /\ [][Next]_vars

\* The same program on a store on which no statement fails from outside.
NextNoFault ==
    \/ StartupOpen(NoFaults)
    \/ StartupVersionTable(NoFaults)
    \/ StartupDomainTables(NoFaults)
    \/ CloseDb
    \/ IsTablePresent
    \/ CreateTable(NoFaults)
    \/ DropTable(NoFaults)
    \/ GetTableVersion(NoFaults)
    \/ SetTableVersion(NoFaults)

SpecNoFault == Init /\ [][NextNoFault]_vars

\* The start of the program on any home directory: the check of the saving
\* directory and the opening of the database in it.
InitDir ==
    /\ pc = "idle"
    /\ dbOpen = FALSE
    /\ tables = [n \in TableNames |-> Absent]
    /\ rows = NoRows
    /\ last = Call("none", "", <<>>, 0, TRUE, 0, {}, <<>>)
    /\ roundTrip = [n \in TableNames |-> NoTrip]
    /\ home \in BOOLEAN
    /\ saving \in (IF home THEN SavingEntries ELSE {"absent"})
    /\ dirCall = NoDirCall

NextDir ==
    \/ CheckUserDirectory(Faults)
    \/ StartupOpen(Faults)
    \/ StartupVersionTable(Faults)
    \/ StartupDomainTables(Faults)
    \/ CloseDb

SpecDir == InitDir /\ [][NextDir]_vars

TypeOK ==
    /\ pc \in {"idle", "opened", "ensured"}
    /\ dbOpen \in BOOLEAN
    /\ \A n \in TableNames : tables[n] \in ColumnLists \cup {VersionTableDef, Absent}
    /\ \A n \in TableNames : rows[n] \in Versions \cup {NoRow}
    /\ home \in BOOLEAN
    /\ saving \in SavingEntries
    /\ dirCall \in [error : {"", "Directory not found", "Directory not created",
                              "Directory not opened"},
                     made : BOOLEAN, again : BOOLEAN]

(***************************************************************************)
(* Properties                                                              *)
(***************************************************************************)

Returned(op) == pc = "idle" /\ last.op = op

RegistryUsable ==
    /\ dbOpen
    /\ tables[VERSION_TABLE_NAME] # Absent
    /\ HasVersionColumns(tables[VERSION_TABLE_NAME])

C2_NoRegistryIsMinusOne ==
    (Returned("getTableVersion") /\ ~isTablePresent(Db, VERSION_TABLE_NAME))
    => last.val = -1

\* T exists on an open connection, the version table does not, and the answer
\* was given.
C2_Witness ==
    /\ Returned("getTableVersion")
    /\ dbOpen
    /\ tables[VERSION_TABLE_NAME] = Absent
    /\ tables[last.name] # Absent
    /\ last.val = -1

\* C3: whenever the version table is present and T is not, getTableVersion(T)
\* returns 0, whether or not the version table holds a row for T.
C3_AbsentTableIsZero ==
    (Returned("getTableVersion") /\ isTablePresent(Db, VERSION_TABLE_NAME)
        /\ ~isTablePresent(Db, last.name))
    => last.val = 0

\* The asked table was dropped and its row, of another value than 0, is still
\* in the version table.
C3_Witness ==
    /\ Returned("getTableVersion")
    /\ RegistryUsable
    /\ tables[last.name] = Absent
    /\ rows[last.name] \notin {NoRow, 0}
    /\ last.val = 0

\* C4: whenever the version table and T are present and the version table
\* holds no row for T, getTableVersion(T) returns -1.
C4_MissingRowIsMinusOne ==
    (Returned("getTableVersion") /\ isTablePresent(Db, VERSION_TABLE_NAME)
        /\ isTablePresent(Db, last.name) /\ rows[last.name] = NoRow)
    => last.val = -1

\* A table created by hand, never given a version, was asked for.
C4_Witness ==
    /\ Returned("getTableVersion")
    /\ RegistryUsable
    /\ last.name # VERSION_TABLE_NAME
    /\ tables[last.name] # Absent
    /\ rows[last.name] = NoRow
    /\ last.sql # <<>>
    /\ last.val = -1

DbUnchanged == dbOpen' = dbOpen /\ tables' = tables /\ rows' = rows

Calls(op) == pc = "idle" /\ pc' = "idle" /\ last'.op = op

\* C5: setTableVersion(T, v) called when the version table or T is not
\* present returns false and leaves the database as it was: no row written,
\* no table created or dropped.
C5_SetVersionRefused ==
    [][(Calls("setTableVersion")
          /\ (~isTablePresent(Db, VERSION_TABLE_NAME) \/ ~isTablePresent(Db, last'.name)))
       => (~last'.ok /\ DbUnchanged)]_vars

\* The version table is there, the table is not and has no row: refused.
C5_Witness ==
    /\ Returned("setTableVersion")
    /\ RegistryUsable
    /\ tables[last.name] = Absent
    /\ rows[last.name] = NoRow
    /\ ~last.ok

\* C6: dropTable is idempotent.  On a table that is not present it returns
\* true, runs no statement and changes nothing; on a present table whose DROP
\* succeeds it returns true and the table is not present afterwards; repeated
\* right after a successful dropTable of the same table it returns true and
\* changes nothing.
C6_DropIdempotent ==
    [][Calls("dropTable") =>
         /\ ~isTablePresent(Db, last'.name)
               => (last'.ok /\ last'.sql = <<>> /\ DbUnchanged)
         /\ (isTablePresent(Db, last'.name) /\ last'.ok)
               => ~isTablePresent(Db', last'.name)
         /\ (last.op = "dropTable" /\ last.name = last'.name /\ last.ok)
               => (last'.ok /\ DbUnchanged)]_vars

\* A DROP statement ran and the table is gone.
C6_Witness ==
    /\ Returned("dropTable")
    /\ last.ok
    /\ last.sql # <<>>
    /\ dbOpen
    /\ tables[last.name] = Absent

\* C7 as stated: for an identifier-valid table name that is absent and a
\* well-formed column definition, with or without a primary key, createTable
\* on an open connection returns true and the table is present afterwards.
C7_AsStated ==
    [][(Calls("createTable") /\ dbOpen /\ last'.name \in IdentifierNames
          /\ tables[last'.name] = Absent /\ WellFormed(last'.def))
       => (last'.ok /\ isTablePresent(Db', last'.name))]_vars

\* C8: createTable(T, def) on a table T that exists returns false and leaves
\* T, every other table and every row of the version table as they were.
C8_CreateExistingFails ==
    [][(Calls("createTable") /\ tables[last'.name] # Absent)
       => (~last'.ok /\ DbUnchanged)]_vars

\* An acceptable definition, for a table that exists with other columns, was
\* refused on an open connection.
C8_Witness ==
    /\ Returned("createTable")
    /\ dbOpen
    /\ WellFormed(last.def) /\ HasPrimaryKey(last.def)
    /\ tables[last.name] \notin {Absent, last.def}
    /\ ~last.ok

\* C9: when the version table exists, ensuring it again succeeds and leaves
\* every row unchanged, so that getTableVersion(T) answers the same before
\* and after for every T.
C9_EnsureIdempotent ==
    [][(pc = "opened" /\ tables[VERSION_TABLE_NAME] # Absent)
       => /\ pc' = "ensured"
          /\ DbUnchanged
          /\ \A n \in TableNames :
                getTableVersion(Db', n, FALSE).val = getTableVersion(Db, n, FALSE).val]_vars

\* The version table was ensured while it held a row.
C9_Witness ==
    /\ pc = "ensured"
    /\ RegistryUsable
    /\ \E n \in TableNames : rows[n] # NoRow

\* C10 as stated: when openDdAndCheckTables fails after the connection was
\* opened, the connection is not open when the failure is returned.
C10_AsStated ==
    (Returned("openDdAndCheckTables") /\ ~last.ok) => ~dbOpen

\* C11 as stated: in every reachable state every row of the version table
\* has a non-negative version, whatever integers setTableVersion is given.
C11_AsStated ==
    \A n \in TableNames : rows[n] # NoRow => rows[n] >= 0

C13_AsStated ==
    (pc = "idle" /\ last.op \in {"createTable", "dropTable"}
        /\ last.name \notin IdentifierNames)
    => last.sql = <<>>

\* C14: every table name with a row in the version table exists now or
\* existed earlier.  Stated step by step: the version table starts without
\* rows, and whenever a step (of createTable, dropTable, setTableVersion,
\* getTableVersion, closeDb or start-up) leaves a row for a name that had none
\* before it, the table of that name exists after the step.
C14_RowsOfRealTables ==
    /\ \A n \in TableNames : rows[n] = NoRow
    /\ [][\A n \in TableNames :
            (rows[n] = NoRow /\ rows'[n] # NoRow) => tables'[n] # Absent]_vars

\* A row that outlives its table: the domain table has been dropped, its
\* version is still recorded.
C14_Witness ==
    /\ Returned("dropTable")
    /\ last.name = UserDataTableName
    /\ last.sql # <<>>
    /\ tables[UserDataTableName] = Absent
    /\ tables[VERSION_TABLE_NAME] # Absent
    /\ rows[UserDataTableName] # NoRow

\* C15: the check of the saving directory is idempotent.  When the home
\* directory exists and the saving directory exists and can be entered,
\* checkUserDirectory returns true without calling mkdir and leaves the
\* filesystem as it was; a call that follows a successful call returns true
\* and leaves the filesystem as it was.
C15_CheckIdempotent ==
    [][Calls("checkUserDirectory")
       => /\ (home /\ cd(Fs))
             => (last'.ok /\ ~dirCall'.made /\ home' = home /\ saving' = saving)
          /\ (Returned("checkUserDirectory") /\ last.ok)
             => (last'.ok /\ home' = home /\ saving' = saving)]_vars

\* A successful check has been followed by a second one, which returned
\* true without calling mkdir.
C15_Witness ==
    /\ Returned("checkUserDirectory")
    /\ dirCall.again
    /\ last.ok
    /\ ~dirCall.made
    /\ home /\ saving = "dir"

\* C16: the start-up steps are ordered.  The version table statement runs
\* only on a connection that opened, the domain tables are tried only after
\* it succeeded, and after a failed step nothing further is tried.
C16_StartupOrdered ==
    [][/\ pc' = "opened" => (dbOpen' /\ last'.sql = <<>>)
       /\ pc' = "ensured"
            => /\ pc = "opened" /\ dbOpen'
               /\ tables'[VERSION_TABLE_NAME] # Absent
               /\ Len(last'.sql) = 1 /\ last'.sql[1].verb = "CREATE IF NOT EXISTS"
       /\ (pc = "idle" /\ pc' = "idle" /\ last'.op = "openDdAndCheckTables")
            => (~dbOpen' /\ ~last'.ok /\ last'.sql = <<>>
                  /\ tables' = tables /\ rows' = rows)
       /\ (pc = "opened" /\ pc' = "idle")
            => (~last'.ok /\ Len(last'.sql) = 1 /\ tables' = tables /\ rows' = rows)
       /\ (pc = "ensured" /\ pc' = "idle")
            => \A i \in 2..Len(last'.sql) :
                  /\ last'.sql[i].verb \in {"CREATE", "INSERT OR REPLACE"}
                  /\ last'.sql[i].verb = "CREATE"
                        => last'.sql[i].name = UserDataTableName
                  /\ last'.sql[i].verb = "INSERT OR REPLACE"
                        => last'.sql[i].bind[1] = UserDataTableName]_vars

\* A start-up that ran all its steps: version table, domain table, version.
C16_Witness ==
    /\ Returned("openDdAndCheckTables")
    /\ last.ok
    /\ Len(last.sql) = 3

C18_AsStated ==
    [][Calls("dropTable")
       => /\ rows' = rows
          /\ \A m \in TableNames \ {last'.name} : tables'[m] = tables[m]]_vars

\* C18, amended: dropTable(T) for T other than the version table itself
\* never modifies the version table's rows, the row of T included, and adds
\* or removes no table other than T.
C18_DropKeepsRows ==
    [][(Calls("dropTable") /\ last'.name # VERSION_TABLE_NAME)
       => /\ rows' = rows
          /\ \A m \in TableNames \ {last'.name} : tables'[m] = tables[m]]_vars

\* A table was dropped and its row is still in the version table.
C18_Witness ==
    /\ Returned("dropTable")
    /\ last.ok /\ last.sql # <<>>
    /\ last.name # VERSION_TABLE_NAME
    /\ tables[last.name] = Absent
    /\ tables[VERSION_TABLE_NAME] # Absent
    /\ rows[last.name] # NoRow

\* C19: on a store on which no statement fails from outside, after
\* setTableVersion(T, v) with v > 0 succeeded and dropTable then removed T
\* (no setTableVersion(T, .) since, the version table not dropped since),
\* getTableVersion(T) on the open connection returns 0 while T is absent and
\* returns v again, not -1 or 0, once T has been created again.
C19_StaleVersionResurfaces ==
    (Returned("getTableVersion") /\ dbOpen
        /\ roundTrip[last.name].version > 0
        /\ roundTrip[last.name].dropped /\ roundTrip[last.name].intact)
    => /\ tables[last.name] = Absent => last.val = 0
       /\ tables[last.name] # Absent => last.val = roundTrip[last.name].version

\* The domain table was given version 1, dropped and created again; the
\* version read is 1.
C19_Witness ==
    /\ Returned("getTableVersion")
    /\ last.name = UserDataTableName
    /\ dbOpen
    /\ roundTrip[UserDataTableName] =
          [version |-> 1, intact |-> TRUE, dropped |-> TRUE]
    /\ tables[UserDataTableName] # Absent
    /\ last.val = 1

\* C20: while the connection is not open, isTablePresent(T) is false,
\* getTableVersion(T) is -1, setTableVersion(T, v) is false and dropTable(T)
\* is true, for every T; none of them runs a statement or changes the tables
\* and rows of the file.
C20_ClosedConnection ==
    [][(pc = "idle" /\ pc' = "idle" /\ ~dbOpen
          /\ last'.op \in {"isTablePresent", "getTableVersion",
                            "setTableVersion", "dropTable"})
       => /\ last'.sql = <<>>
          /\ DbUnchanged
          /\ last'.op = "isTablePresent" => ~last'.ok
          /\ last'.op = "getTableVersion" => last'.val = -1
          /\ last'.op = "setTableVersion" => ~last'.ok
          /\ last'.op = "dropTable" => last'.ok]_vars

\* dropTable answered true on a closed connection for a table of the file.
C20_Witness ==
    /\ Returned("dropTable")
    /\ ~dbOpen
    /\ tables[last.name] # Absent
    /\ rows[last.name] # NoRow
    /\ last.ok

====
